---- MODULE Spec2Model ----
(***************************************************************************)
(* Word finder: createFrequencyMap, canFormString and findWords of         *)
(* index.ts, together with the type-level mirror of types.ts.              *)
(*                                                                         *)
(* A string is a sequence of one-character strings.  A runtime frequency   *)
(* map is a JavaScript object: a sequence of entries [char, frequency] in  *)
(* the order Object.entries walks (integer keys first, ascending, then the *)
(* other keys in insertion order), on top of Object.prototype.  A          *)
(* type-level frequency map is an object type: a function from its keys    *)
(* to counts.                                                              *)
(***************************************************************************)
EXTENDS Integers, Sequences, FiniteSets

\* ------------------------------------------------------------- bounds

\* Longest inputString of a findWords call.
MaxLen == 2
\* Longest word of a dictionary.
MaxWordLen == 2
\* Longest dictionary.
MaxDict == 2
\* The same three bounds for the runs that make several calls in a row.
MaxCallLen == 1
MaxCallWordLen == 1
MaxCallDict == 2

\* The characters strings are made of: a lowercase letter and its uppercase.
Alphabet == {"a", "A"}
\* The characters of the runs that make several calls in a row.
CallAlphabet == {"a"}

RECURSIVE SeqsOfLen(_, _)
SeqsOfLen(S, n) ==
    IF n = 0 THEN {<<>>}
    ELSE {Append(q, x) : q \in SeqsOfLen(S, n - 1), x \in S}

SeqsUpTo(S, n) == UNION {SeqsOfLen(S, k) : k \in 0..n}

Strings == SeqsUpTo(Alphabet, MaxLen)
Words == SeqsUpTo(Alphabet, MaxWordLen)
Dictionaries == SeqsUpTo(Words, MaxDict)
CallStrings == SeqsUpTo(CallAlphabet, MaxCallLen)
CallDictionaries ==
    SeqsUpTo(SeqsUpTo(CallAlphabet, MaxCallWordLen), MaxCallDict)

\* ------------------------------------------- JavaScript object access

\* const frequencyMap = {}
EmptyFrequencyMap == <<>>

\* The property names every {} inherits from Object.prototype.
ObjectPrototypeKeys ==
    {"constructor", "hasOwnProperty", "isPrototypeOf", "propertyIsEnumerable",
     "toLocaleString", "toString", "valueOf", "__proto__",
     "__defineGetter__", "__defineSetter__", "__lookupGetter__",
     "__lookupSetter__"}

\* The one-character keys that are integer indices, in ascending order.
IndexKeys == <<"0", "1", "2", "3", "4", "5", "6", "7", "8", "9">>

IsIndexKey(char) == \E d \in 1..Len(IndexKeys) : IndexKeys[d] = char

IndexOf(char) == CHOOSE d \in 1..Len(IndexKeys) : IndexKeys[d] = char

\* The object has the key as an own property.
HasOwn(map, char) == \E k \in 1..Len(map) : map[k].char = char

\* map[char]: the own count, else what Object.prototype holds under the
\* name (an object for __proto__, a function for the others), else
\* undefined.
Get(map, char) ==
    IF HasOwn(map, char)
    THEN [type |-> "number",
          value |-> map[CHOOSE k \in 1..Len(map) : map[k].char = char].frequency]
    ELSE IF char \in ObjectPrototypeKeys
    THEN [type |-> IF char = "__proto__" THEN "object" ELSE "function",
          value |-> 0]
    ELSE [type |-> "undefined", value |-> 0]

\* map[char] !== undefined
Has(map, char) == Get(map, char).type # "undefined"

\* v >= frequency, frequency a number: a function or an object converts to
\* NaN, and every comparison with NaN is false.
GreaterOrEqual(v, frequency) == v.type = "number" /\ v.value >= frequency

\* map[char] = value on a key that is one character: an own key keeps its
\* place; a new integer key goes among the integer keys, which come first
\* in ascending order; any other new key goes last.
Set(map, char, value) ==
    IF HasOwn(map, char)
    THEN [k \in 1..Len(map) |->
            IF map[k].char = char
            THEN [char |-> char, frequency |-> value]
            ELSE map[k]]
    ELSE IF IsIndexKey(char)
    THEN LET before == Cardinality(
                 {k \in 1..Len(map) :
                     /\ IsIndexKey(map[k].char)
                     /\ IndexOf(map[k].char) < IndexOf(char)})
         IN SubSeq(map, 1, before)
            \o <<[char |-> char, frequency |-> value]>>
            \o SubSeq(map, before + 1, Len(map))
    ELSE Append(map, [char |-> char, frequency |-> value])

\* ------------------------------------------------- createFrequencyMap

\* frequencyMap[char] = (frequencyMap[char] ?? 0) + 1, char one code point
\* of the string: no name of Object.prototype is one, so the lookup gives
\* the own count or undefined.
CountCharDropping(frequencyMap, char) == Set(frequencyMap, char, 1)
CountChar(frequencyMap, char) ==
    Set(frequencyMap, char,
        (IF Get(frequencyMap, char).type = "number"
         THEN Get(frequencyMap, char).value
         ELSE 0) + 1)

\* frequencyMap after n iterations of  for (const char of inputString)
RECURSIVE FrequencyMapAfter(_, _)
FrequencyMapAfter(inputString, n) ==
    IF n = 0 THEN EmptyFrequencyMap
    ELSE CountChar(FrequencyMapAfter(inputString, n - 1), inputString[n])

createFrequencyMap(inputString) ==
    FrequencyMapAfter(inputString, Len(inputString))

\* ------------------------------------------------------ canFormString

\* ([char, frequency]) => map1[char] !== undefined && map1[char] >= frequency
EntryFitsStrict(map1, entry) ==
    /\ Has(map1, entry.char)
    /\ Get(map1, entry.char).type = "number"
    /\ Get(map1, entry.char).value > entry.frequency
EntryFitsAbsent(map1, entry) ==
    Has(map1, entry.char) =>
        GreaterOrEqual(Get(map1, entry.char), entry.frequency)
EntryFitsExact(map1, entry) ==
    /\ Has(map1, entry.char)
    /\ Get(map1, entry.char).type = "number"
    /\ Get(map1, entry.char).value = entry.frequency
EntryFits(map1, entry) ==
    /\ Has(map1, entry.char)
    /\ GreaterOrEqual(Get(map1, entry.char), entry.frequency)

\* Array.prototype.every over entries k, k+1, ...: stops at the first entry
\* the callback rejects.  visited counts the callback's invocations.
RECURSIVE Every(_, _, _)
Every(map1, entries, k) ==
    IF k > Len(entries) THEN [ok |-> TRUE, visited |-> k - 1]
    ELSE IF EntryFits(map1, entries[k]) THEN Every(map1, entries, k + 1)
    ELSE [ok |-> FALSE, visited |-> k]

\* Array.prototype.some, the scan a slip would put in place of every.
RECURSIVE Some(_, _, _)
Some(map1, entries, k) ==
    IF k > Len(entries) THEN [ok |-> FALSE, visited |-> k - 1]
    ELSE IF EntryFits(map1, entries[k]) THEN [ok |-> TRUE, visited |-> k]
    ELSE Some(map1, entries, k + 1)

\* Object.entries(map2).every(...)
canFormStringSome(map1, map2) == Some(map1, map2, 1)
canFormString(map1, map2) == Every(map1, map2, 1)

\* ---------------------------------------------------------- findWords

\* map1 with the letters of map2 taken out of it.
RECURSIVE Consume(_, _, _)
Consume(map1, map2, k) ==
    IF k > Len(map2) THEN map1
    ELSE Consume(Set(map1, map2[k].char,
                     Get(map1, map2[k].char).value - map2[k].frequency),
                 map2, k + 1)

\* A callback that uses up the letters of each word it accepts.
ReduceCallbackConsuming(accumulator, word, inputMap) ==
    LET wordMap == createFrequencyMap(word)
        scan == canFormString(inputMap, wordMap)
    IN [acc |-> IF scan.ok THEN Append(accumulator, word) ELSE accumulator,
        inputStringFrequencyMap |->
            IF scan.ok THEN Consume(inputMap, wordMap, 1) ELSE inputMap,
        wordFrequencyMap |-> wordMap,
        check |-> scan]

\* A callback that puts the word first instead of last.
ReduceCallbackUnshift(accumulator, word, inputMap) ==
    LET wordMap == createFrequencyMap(word)
        scan == canFormString(inputMap, wordMap)
    IN [acc |-> IF scan.ok THEN <<word>> \o accumulator ELSE accumulator,
        inputStringFrequencyMap |-> inputMap,
        wordFrequencyMap |-> wordMap,
        check |-> scan]

\* The callback of dictionary.reduce: what it leaves in the accumulator, in
\* the captured inputStringFrequencyMap and in its locals.
ReduceCallback(accumulator, word, inputMap) ==
    LET wordMap == createFrequencyMap(word)
        scan == canFormString(inputMap, wordMap)
    IN [acc |-> IF scan.ok THEN Append(accumulator, word) ELSE accumulator,
        inputStringFrequencyMap |-> inputMap,
        wordFrequencyMap |-> wordMap,
        check |-> scan]

VARIABLES
    pc,                       \* "idle", "loop" (inside reduce) or "done"
    inputString,              \* findWords' first argument
    dictionary,               \* findWords' second argument
    inputStringFrequencyMap,  \* the const built before the reduce
    i,                        \* index of the next dictionary entry
    acc,                      \* the reduce accumulator
    wordFrequencyMap,         \* the callback's const, as last built
    check,                    \* the last canFormString scan
    result,                   \* the value the last call returned
    memo                      \* at most one noted completed call, with the
                              \* number of calls entered since (2: two or more)

vars == <<pc, inputString, dictionary, inputStringFrequencyMap, i, acc,
          wordFrequencyMap, check, result, memo>>

\* The initial value handed to reduce: a fresh [] literal.
InitialAccumulatorShared == acc
InitialAccumulator == <<>>

\* dictionary.reduce(callback, []) from entry k on, as one computation.
RECURSIVE Reduce(_, _, _, _)
Reduce(dict, accumulator, inputMap, k) ==
    IF k > Len(dict) THEN accumulator
    ELSE LET r == ReduceCallback(accumulator, dict[k], inputMap)
         IN Reduce(dict, r.acc, r.inputStringFrequencyMap, k + 1)

\* findWords(s, dict) as a function of its arguments.
findWords(s, dict) == Reduce(dict, <<>>, createFrequencyMap(s), 1)

Init ==
    /\ pc = "idle"
    /\ inputString = <<>>
    /\ dictionary = <<>>
    /\ inputStringFrequencyMap = <<>>
    /\ i = 1
    /\ acc = <<>>
    /\ wordFrequencyMap = <<>>
    /\ check = [ok |-> TRUE, visited |-> 0]
    /\ result = <<>>
    /\ memo = {}

\* findWords is entered: the input's map is built, reduce starts with a
\* fresh accumulator, and the callback's locals do not exist yet.
Enter(s, dict) ==
    /\ inputString' = s
    /\ dictionary' = dict
    /\ inputStringFrequencyMap' = createFrequencyMap(s)
    /\ i' = 1
    /\ acc' = InitialAccumulator
    /\ wordFrequencyMap' = <<>>
    /\ check' = [ok |-> TRUE, visited |-> 0]
    /\ result' = <<>>
    /\ pc' = "loop"
    /\ memo' = {[m EXCEPT !.later = IF m.later < 2 THEN m.later + 1 ELSE 2] :
                   m \in memo}

\* The one call of a run.
Call ==
    /\ pc = "idle"
    /\ \E s \in Strings, dict \in Dictionaries : Enter(s, dict)

\* A further call, after any number of earlier ones.
CallAgain ==
    /\ pc \in {"idle", "done"}
    /\ \E s \in CallStrings, dict \in CallDictionaries : Enter(s, dict)

\* One invocation of the reduce callback.
Step ==
    /\ pc = "loop"
    /\ i <= Len(dictionary)
    /\ LET r == ReduceCallback(acc, dictionary[i], inputStringFrequencyMap)
       IN /\ acc' = r.acc
          /\ inputStringFrequencyMap' = r.inputStringFrequencyMap
          /\ wordFrequencyMap' = r.wordFrequencyMap
          /\ check' = r.check
    /\ i' = i + 1
    /\ UNCHANGED <<pc, inputString, dictionary, result, memo>>

\* reduce is over: findWords returns the accumulator.
Return ==
    /\ pc = "loop"
    /\ i > Len(dictionary)
    /\ result' = acc
    /\ pc' = "done"
    /\ UNCHANGED <<inputString, dictionary, inputStringFrequencyMap, i, acc,
                   wordFrequencyMap, check, memo>>

\* An observer notes the call that has just returned.
Remember ==
    /\ pc = "done"
    /\ memo' = {[inputString |-> inputString, dictionary |-> dictionary,
                 result |-> result, later |-> 0]}
    /\ memo' # memo
    /\ UNCHANGED <<pc, inputString, dictionary, inputStringFrequencyMap, i,
                   acc, wordFrequencyMap, check, result>>

Next == Call \/ Step \/ Return

Spec == Init /\ [][Next]_vars

NextCalls == CallAgain \/ Step \/ Return \/ Remember

SpecCalls == Init /\ [][NextCalls]_vars

\* ------------------------------------------------ types.ts, type level

\* ts-arithmetic: Add<A, B> and LtOrEq<A, B> (1 when A <= B, else 0)
Add(a, b) == a + b
LtOrEq(a, b) == IF a <= b THEN 1 ELSE 0

\* The intrinsic Lowercase<Char> on the printable ASCII characters a string
\* constant of this module can hold, the characters of this model: an
\* uppercase letter gives its lowercase, every other one gives itself.  Outside ASCII the intrinsic follows
\* the Unicode tables of the engine that runs the compiler; the model gives
\* Lowercase no value there.
UppercaseLetters ==
    <<"A", "B", "C", "D", "E", "F", "G", "H", "I", "J", "K", "L", "M",
      "N", "O", "P", "Q", "R", "S", "T", "U", "V", "W", "X", "Y", "Z">>
LowercaseLetters ==
    <<"a", "b", "c", "d", "e", "f", "g", "h", "i", "j", "k", "l", "m",
      "n", "o", "p", "q", "r", "s", "t", "u", "v", "w", "x", "y", "z">>
UncasedAscii ==
    {LowercaseLetters[k] : k \in 1..Len(LowercaseLetters)}
    \cup {IndexKeys[k] : k \in 1..Len(IndexKeys)}
    \cup {" ", "!", "\"", "#", "$", "%", "&", "'", "(", ")", "*", "+", ",",
          "-", ".", "/", ":", ";", "<", "=", ">", "?", "@", "[", "\\", "]",
          "^", "_", "{", "|", "}", "~"}
Lowercase(char) ==
    CASE \E k \in 1..Len(UppercaseLetters) : UppercaseLetters[k] = char ->
            LowercaseLetters[
                CHOOSE k \in 1..Len(UppercaseLetters) :
                    UppercaseLetters[k] = char]
      [] char \in UncasedAscii -> char

\* The object type {}
EmptyObjectType == [c \in {} |-> 0]

\* StringToFrequencyMap<S, Acc>
RECURSIVE StringToFrequencyMap(_, _)
StringToFrequencyMap(S, Acc) ==
    IF S = <<>> THEN Acc
    ELSE LET K == Lowercase(Head(S))
         IN StringToFrequencyMap(
                Tail(S),
                [c \in (DOMAIN Acc) \cup {K} |->
                    IF c = K
                    THEN (IF K \in DOMAIN Acc THEN Add(Acc[K], 1) ELSE 1)
                    ELSE Acc[c]])

\* NormalizeBoolean<T>, T a union of true and false given as a set:
\* never is {}, boolean is {TRUE, FALSE}
NormalizeBoolean(T) ==
    IF T = {} THEN TRUE
    ELSE IF {TRUE, FALSE} \subseteq T THEN FALSE
    ELSE CHOOSE b \in T : TRUE

\* CanFormString<S1, S2>
CanFormString(S1, S2) ==
    NormalizeBoolean(
        {IF K \in DOMAIN S1
         THEN (IF LtOrEq(S2[K], S1[K]) = 1 THEN TRUE ELSE FALSE)
         ELSE FALSE : K \in DOMAIN S2})

\* FindWords<S, Dict, Acc, Smap>
RECURSIVE FindWords(_, _, _, _)
FindWords(S, Dict, Acc, Smap) ==
    IF Dict = <<>> THEN Acc
    ELSE IF CanFormString(Smap, StringToFrequencyMap(Head(Dict), EmptyObjectType))
         THEN FindWords(S, Tail(Dict), Append(Acc, Head(Dict)), Smap)
         ELSE FindWords(S, Tail(Dict), Acc, Smap)

\* FindWords<S, Dict> with the defaults of Acc and Smap
FindWordsDefault(S, Dict) ==
    FindWords(S, Dict, <<>>, StringToFrequencyMap(S, EmptyObjectType))

\* ------------------------------------------ vocabulary of the properties

\* The keys of a runtime frequency map.
Keys(map) == {map[k].char : k \in 1..Len(map)}

\* The values a runtime frequency map stores under a key.
StoredAt(map, char) ==
    {map[k].frequency : k \in {j \in 1..Len(map) : map[j].char = char}}

\* The characters of a string, and how often one occurs in it.
Chars(s) == {s[k] : k \in 1..Len(s)}
Occurrences(s, x) == Cardinality({k \in 1..Len(s) : s[k] = x})

\* The object type a runtime frequency map is a value of.
TypeOf(map) ==
    [c \in Keys(map) |-> CHOOSE v \in StoredAt(map, c) : TRUE]

\* map counts the characters of s: unique keys, exactly the characters of
\* s, each with its number of occurrences, which is at least 1.
Counts(map, s) ==
    /\ \A j, k \in 1..Len(map) : map[j].char = map[k].char => j = k
    /\ Keys(map) = Chars(s)
    /\ \A k \in 1..Len(map) :
          /\ map[k].frequency = Occurrences(s, map[k].char)
          /\ map[k].frequency >= 1
    /\ (s = <<>> => map = <<>>)

\* map1 holds the key of the entry with a count at least as large.
Covers(map1, entry) ==
    \E j \in 1..Len(map1) :
        /\ map1[j].char = entry.char
        /\ map1[j].frequency >= entry.frequency

\* The entries of map2 that map1 cannot cover.
Failing(map1, map2) == {k \in 1..Len(map2) : ~Covers(map1, map2[k])}

\* map1 has every key of map2, at least as often.
Dominates(map1, map2) == \A k \in 1..Len(map2) : Covers(map1, map2[k])

\* word can be formed from s, by the two runtime functions.
Formable(s, word) ==
    canFormString(createFrequencyMap(s), createFrequencyMap(word)).ok

\* a is b with some entries left out: a[j..] embeds in b[k..].
RECURSIVE Embeds(_, _, _, _)
Embeds(a, b, j, k) ==
    IF j > Len(a) THEN TRUE
    ELSE IF k > Len(b) THEN FALSE
    ELSE IF a[j] = b[k] THEN Embeds(a, b, j + 1, k + 1)
    ELSE Embeds(a, b, j, k + 1)

IsSubsequence(a, b) == Embeds(a, b, 1, 1)

\* The callback has run at least once in the current call.
Checked == pc # "idle" /\ i > 1

\* The word the callback ran on last.
LastWord == dictionary[i - 1]

\* ------------------------------------------------------------- claims

\* C1: findWords(s, D) is the stable filter of D by formability: the entries
\* D[i] with canFormString(createFrequencyMap(s), createFrequencyMap(D[i])),
\* in D's order, each as often as it occurs; and while reduce runs the
\* accumulator is that filter of the entries already visited.
C1_StableFilter ==
    /\ pc = "done" =>
          result = SelectSeq(dictionary, LAMBDA w : Formable(inputString, w))
    /\ pc = "loop" =>
          acc = SelectSeq(SubSeq(dictionary, 1, i - 1),
                          LAMBDA w : Formable(inputString, w))

\* A formable non-empty word listed twice is returned twice.
C1_Witness ==
    /\ pc = "done"
    /\ Len(dictionary) = 2
    /\ dictionary[1] = dictionary[2]
    /\ dictionary[1] # <<>>
    /\ result = dictionary

\* C2: canFormString(map1, map2) is true iff every key of map2 is a key of
\* map1 with a count at least as large; the scan visits every entry when it
\* succeeds and stops at the first entry that fails.
C2_CanFormIff ==
    Checked =>
        LET failing == Failing(inputStringFrequencyMap, wordFrequencyMap)
        IN /\ check.ok <=> failing = {}
           /\ check.ok => check.visited = Len(wordFrequencyMap)
           /\ ~check.ok =>
                 /\ check.visited \in failing
                 /\ \A k \in failing : check.visited <= k

\* The scan stopped on a first entry that fails, before the last entry.
C2_Witness ==
    /\ Checked
    /\ ~check.ok
    /\ check.visited < Len(wordFrequencyMap)

\* C3: createFrequencyMap(s) has exactly the characters of s as keys, 'a' and
\* 'A' apart, each with its number of occurrences, never a count below 1, and
\* is empty for the empty string; the same holds after every iteration of
\* its loop, for the characters read so far.
C3_FrequencyMapCounts ==
    /\ pc # "idle" =>
          /\ Counts(inputStringFrequencyMap, inputString)
          /\ \A n \in 0..Len(inputString) :
                Counts(FrequencyMapAfter(inputString, n),
                       SubSeq(inputString, 1, n))
    /\ Checked =>
          /\ Counts(wordFrequencyMap, LastWord)
          /\ \A n \in 0..Len(LastWord) :
                Counts(FrequencyMapAfter(LastWord, n), SubSeq(LastWord, 1, n))

\* The input has 'a' and 'A' as two keys and the word a count of 2.
C3_Witness ==
    /\ Checked
    /\ Keys(inputStringFrequencyMap) = {"a", "A"}
    /\ \E k \in 1..Len(wordFrequencyMap) : wordFrequencyMap[k].frequency = 2

\* C4, as stated: with the empty inputString, a dictionary that has an entry
\* other than the empty string yields the empty result.
C4_EmptyUnlessOnlyEmpty ==
    (/\ pc = "done"
     /\ inputString = <<>>
     /\ \E k \in 1..Len(dictionary) : dictionary[k] # <<>>)
        => result = <<>>

\* C4, amended: with the empty inputString the result is the empty-string
\* entries of the dictionary, so it is empty iff the dictionary has none.
C4_EmptyInputKeepsEmptyWords ==
    (pc = "done" /\ inputString = <<>>) =>
        /\ result = SelectSeq(dictionary, LAMBDA w : w = <<>>)
        /\ result = <<>> <=> \A k \in 1..Len(dictionary) : dictionary[k] # <<>>

\* The empty inputString, a dictionary with an empty and a non-empty word.
C4_Witness ==
    /\ pc = "done"
    /\ inputString = <<>>
    /\ \E k \in 1..Len(dictionary) : dictionary[k] # <<>>
    /\ \E k \in 1..Len(dictionary) : dictionary[k] = <<>>
    /\ result = << <<>> >>

\* C5: canFormString(source, {}) is true for every source, the empty one
\* included, so findWords returns every empty word of the dictionary.
C5_VacuousTruth ==
    /\ (Checked /\ wordFrequencyMap = <<>>) => check.ok
    /\ pc = "done" =>
          Occurrences(result, <<>>) = Occurrences(dictionary, <<>>)

\* A non-empty inputString and a dictionary of two empty words, both kept.
C5_Witness ==
    /\ pc = "done"
    /\ inputString # <<>>
    /\ dictionary = << <<>>, <<>> >>
    /\ result = dictionary

\* C6: canFormString({}, target) is false for every target with a key.
C6_EmptySourceStrict ==
    (Checked /\ inputStringFrequencyMap = <<>> /\ wordFrequencyMap # <<>>)
        => ~check.ok

\* The empty source has been checked against a target with two keys.
C6_Witness ==
    /\ Checked
    /\ inputStringFrequencyMap = <<>>
    /\ Len(wordFrequencyMap) = 2
    /\ ~check.ok

\* C7: a word formable from S is formable from every S' whose frequency map
\* dominates that of S, and findWords(S, D) is a subsequence of
\* findWords(S', D).
C7_Monotone ==
    /\ (Checked /\ check.ok) =>
          \A s2 \in Strings :
              Dominates(createFrequencyMap(s2), inputStringFrequencyMap) =>
                  canFormString(createFrequencyMap(s2), wordFrequencyMap).ok
    /\ pc = "done" =>
          \A s2 \in Strings :
              Dominates(createFrequencyMap(s2),
                        createFrequencyMap(inputString)) =>
                  IsSubsequence(result, findWords(s2, dictionary))

\* A word was found, and a dominating string finds more words.
C7_Witness ==
    /\ pc = "done"
    /\ result # <<>>
    /\ result[1] # <<>>
    /\ \E s2 \in Strings :
          /\ Dominates(createFrequencyMap(s2), createFrequencyMap(inputString))
          /\ Len(findWords(s2, dictionary)) > Len(result)

\* C8: the callback leaves inputStringFrequencyMap as it was built, so after
\* any prefix of the dictionary it is createFrequencyMap(inputString), and
\* whether the last word was accepted depends on inputString and that word
\* alone.
C8_LettersNotConsumed ==
    /\ pc # "idle" =>
          inputStringFrequencyMap = createFrequencyMap(inputString)
    /\ Checked => check.ok = Formable(inputString, LastWord)

\* Two words have been visited and the first, non-empty, was accepted.
C8_Witness ==
    /\ pc = "loop"
    /\ i = 3
    /\ acc # <<>>
    /\ acc[1] = dictionary[1]
    /\ dictionary[1] # <<>>

\* C9: a call that returns with the arguments of a noted earlier call
\* returns the sequence that call returned, whatever was called in between.
C9_Deterministic ==
    pc = "done" =>
        \A m \in memo :
            (m.inputString = inputString /\ m.dictionary = dictionary)
                => m.result = result

\* A call found a word, was noted, and was repeated after another call.
C9_Witness ==
    /\ pc = "done"
    /\ result # <<>>
    /\ \E m \in memo :
          /\ m.later = 2
          /\ m.inputString = inputString
          /\ m.dictionary = dictionary

\* C10, as stated: the runtime values are the ones the declared return types
\* compute: createFrequencyMap(S) is of type StringToFrequencyMap<S>,
\* canFormString(m1, m2) is CanFormString<m1, m2>, and findWords(S, Dict) is
\* FindWords<S, Dict>.
C10_RuntimeMatchesTypes ==
    /\ pc # "idle" =>
          TypeOf(inputStringFrequencyMap)
              = StringToFrequencyMap(inputString, EmptyObjectType)
    /\ Checked =>
          check.ok = CanFormString(TypeOf(inputStringFrequencyMap),
                                   TypeOf(wordFrequencyMap))
    /\ pc = "done" => result = FindWordsDefault(inputString, dictionary)

====
